---- MODULE Spec2Model ----
(***************************************************************************)
(* Model of src/src/connection.py: class Connection, and of                *)
(* src/src/flash_dialog.py: class FlashDialog.                             *)
(*                                                                         *)
(* Two threads share one Connection: the foreground caller, which invokes  *)
(* the public operations one at a time, and the background reader thread   *)
(* running _reader_thread_routine.  The transport primitives (read_line,   *)
(* read_all, send_line, send_character, is_connected, disconnect) are      *)
(* only declared in connection.py; their behaviour is taken from the       *)
(* public contract of the Connection Engine.                               *)
(*                                                                         *)
(* A FlashDialog is driven by the GUI thread (clicks and queued signals)   *)
(* and by the job threads running _flash_job.  The two classes share no    *)
(* state: Spec and FairSpec run the Connection, FlashSpec the FlashDialog. *)
(***************************************************************************)
EXTENDS Integers, Sequences, FiniteSets

VARIABLES
    connected,            \* is_connected(): the transport is open
    _reader_running,      \* Connection._reader_running
    _auto_read_enabled,   \* Connection._auto_read_enabled
    _auto_reader_lock,    \* Connection._auto_reader_lock: "free" or its holder
    rpc,                  \* position of the reader thread in _reader_thread_routine
    x,                    \* local x of _reader_thread_routine
    reads,                \* read_line calls that returned in the reader's current iteration
    auto_seen,            \* value of _auto_read_enabled the reader saw at line 58
    delay,                \* argument of the reader's last time.sleep
    fop,                  \* operation the foreground caller is in (or was last in)
    fpc,                  \* position of the foreground caller in fop
    after_disconnect,     \* the call before this one was a disconnect that returned
    file_name,            \* argument of run_file / remove_file
    globals_init,         \* argument of run_file
    result,               \* how the last foreground operation ended
    sent,                 \* transport writes since the current operation was called
    fg_read,              \* the current operation has read from the transport
    inbuf,                \* lines waiting in the transport's inbound buffer
    remote_idle,          \* the remote has stopped producing output
    _flashing,            \* FlashDialog._flashing
    flashButton,          \* flashButton.isEnabled()
    _flash_output,        \* FlashDialog._flash_output (bytes; empty before the first _flash)
    _flash_output_mutex,  \* FlashDialog._flash_output_mutex: 0 when free, else the job holding it
    port_list,            \* ConnectionScanner.port_list is not empty
    python_path,          \* pythonPathEdit.text()
    firmware_file,        \* firmwarePathEdit.text()
    gpc,                  \* position of the GUI thread ("idle": in the event loop)
    code,                 \* argument of the _flash_finished being handled
    signals,              \* queued signals not yet delivered to the GUI thread
    jobs,                 \* the job threads: position and locals of _flash_job
    njobs,                \* job threads started so far
    visible,              \* the dialog is open (isVisible())
    event                 \* the close or key event being handled, and its accepted flag

vars == <<connected, _reader_running, _auto_read_enabled, _auto_reader_lock,
          rpc, x, reads, auto_seen, delay, fop, fpc, after_disconnect,
          file_name, globals_init, result, sent, fg_read, inbuf, remote_idle,
          _flashing, flashButton, _flash_output, _flash_output_mutex, port_list,
          python_path, firmware_file, gpc, code, signals, jobs, njobs,
          visible, event>>

connection_vars ==
    <<connected, _reader_running, _auto_read_enabled, _auto_reader_lock,
      rpc, x, reads, auto_seen, delay, fop, fpc, after_disconnect,
      file_name, globals_init, result, sent, fg_read, inbuf, remote_idle>>

flash_vars ==
    <<_flashing, flashButton, _flash_output, _flash_output_mutex, port_list,
      python_path, firmware_file, gpc, code, signals, jobs, njobs,
      visible, event>>

conn_vars   == <<_reader_running, _auto_read_enabled, _auto_reader_lock>>
reader_vars == <<rpc, x, reads, auto_seen, delay>>
call_vars   == <<fop, after_disconnect, file_name, globals_init>>

----------------------------------------------------------------------------
(* Bounds and input sets *)

MaxBuf == 2

FileNames == {"main.py", "a.py"}

GlobalsInits == {"", "x=1"}

RemoteLines == {"OK", ">>> "}

MaxJobs == 2

MaxStream == 3

\* Bytes the flash subprocess prints: backspace, space, "a".
Bytes == {8, 32, 97}

\* A job thread that has not been started.
NoJob == [jpc |-> "new", buf |-> <<>>, delete |-> 0, x |-> <<>>,
          stream |-> <<>>, emitted |-> 0]

\* Keys of a key event: Qt.Key_Escape and any other key.
Keys == {"Key_Escape", "Key_A"}

\* No close or key event is being handled.
NoEvent == [kind |-> "none", key |-> "none", accepted |-> TRUE]

----------------------------------------------------------------------------
(* Transport primitives *)

\* send_line(self, line_text, ending): two parameters after self.
SendLineArity == 2

\* The outcomes of one transport primitive: NotConnected while the transport
\* is closed; otherwise it succeeds or the transport raises.
TransportOutcomes ==
    IF connected THEN {"ok", "TransportError"} ELSE {"NotConnected"}

\* What send_character(char) writes: the single byte char.
send_character(by, char) ==
    [by |-> by, call |-> "send_character", char |-> char, text |-> "", ending |-> ""]

\* What send_line(line_text, ending) writes: line_text followed by ending.
send_line(by, args) ==
    [by |-> by, call |-> "send_line", char |-> 0, text |-> args[1], ending |-> args[2]]

\* Binding the positional arguments of a send_line call to its parameters.
SendLineBinds(args) == Len(args) = SendLineArity

\* read_line(): one line of the inbound buffer, "" when there is none.
read_line == IF inbuf = <<>> THEN "" ELSE Head(inbuf)

\* The inbound buffer after read_line().
AfterReadLine == IF inbuf = <<>> THEN inbuf ELSE Tail(inbuf)

----------------------------------------------------------------------------
(* Connection.__init__ *)

ConnectionInit ==
    /\ connected = FALSE
    /\ _reader_running = FALSE
    /\ _auto_read_enabled = TRUE
    /\ _auto_reader_lock = "free"
    /\ rpc = "new"
    /\ x = ""
    /\ reads = 0
    /\ auto_seen = FALSE
    /\ delay = "none"
    /\ fop = "none"
    /\ fpc = "idle"
    /\ after_disconnect = FALSE
    /\ file_name = ""
    /\ globals_init = ""
    /\ result = "none"
    /\ sent = <<>>
    /\ fg_read = FALSE
    /\ inbuf = <<>>
    /\ remote_idle = FALSE

\* FlashDialog.__init__, with no port found by its first scan and no python
\* executable in the settings; the dialog has been shown.
FlashInit ==
    /\ _flashing = FALSE
    /\ flashButton = FALSE
    /\ _flash_output = <<>>
    /\ _flash_output_mutex = 0
    /\ port_list = FALSE
    /\ python_path = ""
    /\ firmware_file = ""
    /\ gpc = "idle"
    /\ code = 0
    /\ signals = <<>>
    /\ jobs = [j \in 1..MaxJobs |-> NoJob]
    /\ njobs = 0
    /\ visible = TRUE
    /\ event = NoEvent

Init == ConnectionInit /\ FlashInit

----------------------------------------------------------------------------
(* The foreground caller *)

PublicOps ==
    {"run_file", "remove_file", "send_start_paste", "send_end_paste",
     "send_kill", "read_junk"}

\* First statement of each operation.
Entry(op) ==
    CASE op = "run_file"         -> "L34"
      [] op = "remove_file"      -> "L42"
      [] op = "send_start_paste" -> "L45"
      [] op = "send_end_paste"   -> "L48"
      [] op = "send_kill"        -> "L51"
      [] op = "read_junk"        -> "L25"
      [] op = "disconnect"       -> "L15"

\* The caller invokes operation op; calls are issued one at a time.
Call(op, fn, gi) ==
    /\ fpc \in {"idle", "ret"}
    /\ fop' = op
    /\ fpc' = Entry(op)
    /\ after_disconnect' = (fop = "disconnect" /\ fpc = "ret")
    /\ file_name' = fn
    /\ globals_init' = gi
    /\ result' = "pending"
    /\ sent' = <<>>
    /\ fg_read' = FALSE
    /\ UNCHANGED <<connected, conn_vars, reader_vars, inbuf, remote_idle>>
    /\ UNCHANGED flash_vars

CallOp ==
    \/ \E fn \in FileNames, gi \in GlobalsInits : Call("run_file", fn, gi)
    \/ \E fn \in FileNames : Call("remove_file", fn, "")
    \/ \E op \in {"send_start_paste", "send_end_paste", "send_kill",
                  "read_junk", "disconnect"} : Call(op, "", "")

\* One transport write by the foreground caller, then on to `next`; a failure
\* propagates to the caller.
Send(entry, next) ==
    \E o \in TransportOutcomes :
        /\ sent' = IF o = "ok" THEN Append(sent, entry) ELSE sent
        /\ fpc' = IF o = "ok" THEN next ELSE "ret"
        /\ result' = IF o # "ok" THEN o
                     ELSE IF next = "ret" THEN "ok" ELSE result

\* A send_line call: the arguments are bound first (TypeError when they do
\* not fit the signature), then the line is written.
SendLine(args, next) ==
    IF SendLineBinds(args)
    THEN Send(send_line("fg", args), next)
    ELSE /\ sent' = sent
         /\ fpc' = "ret"
         /\ result' = "TypeError"

send_start_paste == send_character("fg", 5)

send_end_paste == send_character("fg", 4)

\* Mutant of send_kill: the end-paste byte is sent instead of the interrupt.
send_kill_as_end_paste == send_character("fg", 4)

send_kill == send_character("fg", 3)

\* The frame every foreground step leaves alone.
FgFrame ==
    UNCHANGED <<connected, conn_vars, reader_vars, call_vars, fg_read,
                inbuf, remote_idle, flash_vars>>

\* run_file, line 34: self.send_start_paste()
run_file_34 ==
    /\ fop = "run_file" /\ fpc = "L34"
    /\ Send(send_start_paste, "L35")
    /\ FgFrame

\* Mutant of run_file_35: the `if globals_init` test is dropped.
run_file_35_always ==
    /\ fop = "run_file" /\ fpc = "L35"
    /\ SendLine(<<globals_init, "\r">>, "L37")
    /\ FgFrame

\* run_file, lines 35-36: if globals_init: self.send_line(globals_init, b"\r")
run_file_35 ==
    /\ fop = "run_file" /\ fpc = "L35"
    /\ IF globals_init # ""
       THEN SendLine(<<globals_init, "\r">>, "L37")
       ELSE fpc' = "L37" /\ UNCHANGED <<sent, result>>
    /\ FgFrame

\* run_file, line 37
run_file_37 ==
    /\ fop = "run_file" /\ fpc = "L37"
    /\ SendLine(<<"with open(\"" \o file_name \o "\") as f:", "\r">>, "L38")
    /\ FgFrame

\* Mutant of run_file_38: a failed send still closes the paste session
\* (as a `finally: self.send_end_paste()` would) before the error propagates.
run_file_38_finally ==
    /\ fop = "run_file" /\ fpc = "L38"
    /\ \E o \in TransportOutcomes :
          /\ sent' = IF o = "ok"
                     THEN Append(sent, send_line("fg", <<"    exec(f.read(), globals())", "\r">>))
                     ELSE Append(sent, send_end_paste)
          /\ fpc' = IF o = "ok" THEN "L39" ELSE "ret"
          /\ result' = IF o = "ok" THEN result ELSE o
    /\ FgFrame

\* run_file, line 38
run_file_38 ==
    /\ fop = "run_file" /\ fpc = "L38"
    /\ SendLine(<<"    exec(f.read(), globals())", "\r">>, "L39")
    /\ FgFrame

\* Mutant of run_file_39: the session is closed with the kill byte.
run_file_39_sends_kill ==
    /\ fop = "run_file" /\ fpc = "L39"
    /\ Send(send_kill, "ret")
    /\ FgFrame

\* run_file, line 39: self.send_end_paste()
run_file_39 ==
    /\ fop = "run_file" /\ fpc = "L39"
    /\ Send(send_end_paste, "ret")
    /\ FgFrame

\* remove_file, line 42: send_line is called with the text alone.
remove_file ==
    /\ fop = "remove_file" /\ fpc = "L42"
    /\ SendLine(<<"import os; os.remove(\"" \o file_name \o "\")">>, "ret")
    /\ FgFrame

\* send_start_paste called by the caller itself, line 45.
send_start_paste_45 ==
    /\ fop = "send_start_paste" /\ fpc = "L45"
    /\ Send(send_start_paste, "ret")
    /\ FgFrame

\* send_end_paste called by the caller itself, line 48.
send_end_paste_48 ==
    /\ fop = "send_end_paste" /\ fpc = "L48"
    /\ Send(send_end_paste, "ret")
    /\ FgFrame

\* send_kill, line 51.
send_kill_51 ==
    /\ fop = "send_kill" /\ fpc = "L51"
    /\ Send(send_kill, "ret")
    /\ FgFrame

\* read_junk, line 25: self.read_all() is entered.
read_junk ==
    /\ fop = "read_junk" /\ fpc = "L25"
    /\ IF connected
       THEN fpc' = "read_all" /\ result' = result
       ELSE fpc' = "ret" /\ result' = "NotConnected"
    /\ UNCHANGED <<connected, conn_vars, reader_vars, call_vars, sent, fg_read,
                   inbuf, remote_idle>>
    /\ UNCHANGED flash_vars

\* read_all() returns: it drains the inbound buffer, or the transport raises.
read_all ==
    /\ fop = "read_junk" /\ fpc = "read_all"
    /\ \E o \in TransportOutcomes :
          /\ inbuf' = IF o = "ok" THEN <<>> ELSE inbuf
          /\ fg_read' = (o = "ok")
          /\ result' = o
    /\ fpc' = "ret"
    /\ UNCHANGED <<connected, conn_vars, reader_vars, call_vars, sent, remote_idle>>
    /\ UNCHANGED flash_vars

\* Mutant of disconnect: a disconnect of a closed Connection raises.
disconnect_raises_when_closed ==
    /\ fop = "disconnect" /\ fpc = "L15"
    /\ IF connected
       THEN /\ _reader_running' = FALSE
            /\ fpc' = "join"
            /\ result' = result
       ELSE /\ _reader_running' = _reader_running
            /\ fpc' = "ret"
            /\ result' = "NotConnected"
    /\ UNCHANGED <<connected, _auto_read_enabled, _auto_reader_lock,
                   reader_vars, call_vars, sent, fg_read, inbuf, remote_idle>>
    /\ UNCHANGED flash_vars

\* Opening the transport: the Connection becomes connected and its reader
\* thread is started (target = _reader_thread_routine).
connect ==
    /\ fpc \in {"idle", "ret"}
    /\ ~connected
    /\ rpc = "new"
    /\ connected' = TRUE
    /\ rpc' = "start"
    /\ UNCHANGED <<conn_vars, x, reads, auto_seen, delay, call_vars, fpc, result, sent, fg_read,
                   inbuf, remote_idle>>
    /\ UNCHANGED flash_vars

\* disconnect(): a no-op when already disconnected; otherwise it clears the
\* reader's running flag and waits for the reader thread.
disconnect ==
    /\ fop = "disconnect" /\ fpc = "L15"
    /\ IF connected
       THEN /\ _reader_running' = FALSE
            /\ fpc' = "join"
            /\ result' = result
       ELSE /\ _reader_running' = _reader_running
            /\ fpc' = "ret"
            /\ result' = "ok"
    /\ UNCHANGED <<connected, _auto_read_enabled, _auto_reader_lock,
                   reader_vars, call_vars, sent, fg_read, inbuf, remote_idle>>
    /\ UNCHANGED flash_vars

\* disconnect(), after the reader thread has ended: the transport is released.
disconnect_join ==
    /\ fop = "disconnect" /\ fpc = "join"
    /\ rpc \in {"done", "crashed"}
    /\ connected' = FALSE
    /\ fpc' = "ret"
    /\ result' = "ok"
    /\ UNCHANGED <<conn_vars, reader_vars, call_vars, sent, fg_read,
                   inbuf, remote_idle>>
    /\ UNCHANGED flash_vars

\* A caller of the engine switches automatic reading on or off.
set_auto_read_enabled ==
    /\ fpc \in {"idle", "ret"}
    /\ _auto_read_enabled' = ~_auto_read_enabled
    /\ UNCHANGED <<connected, _reader_running, _auto_reader_lock, reader_vars,
                   call_vars, fpc, result, sent, fg_read, inbuf, remote_idle>>
    /\ UNCHANGED flash_vars

----------------------------------------------------------------------------
(* The background reader: _reader_thread_routine *)

ReaderFrame ==
    UNCHANGED <<connected, call_vars, fpc, result, fg_read, remote_idle,
                flash_vars>>

\* line 54: self._reader_running = True
reader_54 ==
    /\ rpc = "start"
    /\ _reader_running' = TRUE
    /\ rpc' = "L55"
    /\ UNCHANGED <<_auto_read_enabled, _auto_reader_lock, x, reads, auto_seen,
                   delay, sent, inbuf>>
    /\ ReaderFrame

\* line 55: while self._reader_running
reader_55 ==
    /\ rpc = "L55"
    /\ rpc' = IF _reader_running THEN "L56" ELSE "done"
    /\ UNCHANGED <<conn_vars, x, reads, auto_seen, delay, sent, inbuf>>
    /\ ReaderFrame

\* line 56: self._auto_reader_lock.acquire()
reader_56 ==
    /\ rpc = "L56"
    /\ _auto_reader_lock = "free"
    /\ _auto_reader_lock' = "reader"
    /\ rpc' = "L57"
    /\ UNCHANGED <<_reader_running, _auto_read_enabled, x, reads, auto_seen,
                   delay, sent, inbuf>>
    /\ ReaderFrame

\* Mutant of reader_57: the test of _auto_read_enabled is inverted.
reader_57_inverted ==
    /\ rpc = "L57"
    /\ x' = ""
    /\ reads' = 0
    /\ auto_seen' = _auto_read_enabled
    /\ rpc' = IF ~_auto_read_enabled THEN "read_line" ELSE "L60"
    /\ UNCHANGED <<conn_vars, delay, sent, inbuf>>
    /\ ReaderFrame

\* Mutant of reader_57: x keeps the line of the previous iteration.
reader_57_stale_x ==
    /\ rpc = "L57"
    /\ reads' = 0
    /\ auto_seen' = _auto_read_enabled
    /\ rpc' = IF _auto_read_enabled THEN "read_line" ELSE "L60"
    /\ UNCHANGED <<conn_vars, x, delay, sent, inbuf>>
    /\ ReaderFrame

\* lines 57-59: x = ""; if self._auto_read_enabled, read_line() is entered.
reader_57 ==
    /\ rpc = "L57"
    /\ x' = ""
    /\ reads' = 0
    /\ auto_seen' = _auto_read_enabled
    /\ rpc' = IF _auto_read_enabled THEN "read_line" ELSE "L60"
    /\ UNCHANGED <<conn_vars, delay, sent, inbuf>>
    /\ ReaderFrame

\* Mutant of reader_59: the reader echoes the line it read to the transport.
reader_59_echo ==
    /\ rpc = "read_line"
    /\ \E o \in TransportOutcomes :
          /\ x' = IF o = "ok" THEN read_line ELSE x
          /\ inbuf' = IF o = "ok" THEN AfterReadLine ELSE inbuf
          /\ rpc' = IF o = "ok" THEN "L60" ELSE "crashed"
          /\ reads' = IF o = "ok" THEN reads + 1 ELSE reads
          /\ sent' = IF o = "ok" /\ read_line # ""
                     THEN Append(sent, send_line("reader", <<read_line, "\r">>))
                     ELSE sent
    /\ UNCHANGED <<conn_vars, auto_seen, delay>>
    /\ ReaderFrame

\* line 59: read_line() returns into x, or raises; nothing in the routine
\* catches the exception, so it ends the thread where it stands.
reader_59 ==
    /\ rpc = "read_line"
    /\ \E o \in TransportOutcomes :
          /\ x' = IF o = "ok" THEN read_line ELSE x
          /\ inbuf' = IF o = "ok" THEN AfterReadLine ELSE inbuf
          /\ rpc' = IF o = "ok" THEN "L60" ELSE "crashed"
          /\ reads' = IF o = "ok" THEN reads + 1 ELSE reads
    /\ UNCHANGED <<conn_vars, auto_seen, delay, sent>>
    /\ ReaderFrame

\* Mutant of reader_60: the guard is not released before the sleep.
reader_60_no_release ==
    /\ rpc = "L60"
    /\ rpc' = "L61"
    /\ UNCHANGED <<conn_vars, x, reads, auto_seen, delay, sent, inbuf>>
    /\ ReaderFrame

\* line 60: self._auto_reader_lock.release()
reader_60 ==
    /\ rpc = "L60"
    /\ _auto_reader_lock' = "free"
    /\ rpc' = "L61"
    /\ UNCHANGED <<_reader_running, _auto_read_enabled, x, reads, auto_seen,
                   delay, sent, inbuf>>
    /\ ReaderFrame

\* line 61: time.sleep(0.1 if x == "" else 0)
reader_61 ==
    /\ rpc = "L61"
    /\ delay' = IF x = "" THEN "0.1" ELSE "0"
    /\ rpc' = "L55"
    /\ UNCHANGED <<conn_vars, x, reads, auto_seen, sent, inbuf>>
    /\ ReaderFrame

_reader_thread_routine ==
    \/ reader_54
    \/ reader_55
    \/ reader_56
    \/ reader_57
    \/ reader_59
    \/ reader_60
    \/ reader_61

----------------------------------------------------------------------------
(* The remote REPL *)

\* The remote prints one more line.
remote_output ==
    /\ connected
    /\ ~remote_idle
    /\ Len(inbuf) < MaxBuf
    /\ \E l \in RemoteLines : inbuf' = Append(inbuf, l)
    /\ UNCHANGED <<connected, conn_vars, reader_vars, call_vars, fpc, result,
                   sent, fg_read, remote_idle>>
    /\ UNCHANGED flash_vars

\* The remote stops producing output.
remote_stops ==
    /\ connected
    /\ ~remote_idle
    /\ remote_idle' = TRUE
    /\ UNCHANGED <<connected, conn_vars, reader_vars, call_vars, fpc, result,
                   sent, fg_read, inbuf>>
    /\ UNCHANGED flash_vars

----------------------------------------------------------------------------

Foreground ==
    \/ CallOp
    \/ run_file_34
    \/ run_file_35
    \/ run_file_37
    \/ run_file_38
    \/ run_file_39
    \/ remove_file
    \/ send_start_paste_45
    \/ send_end_paste_48
    \/ send_kill_51
    \/ read_junk
    \/ read_all
    \/ connect
    \/ disconnect
    \/ disconnect_join
    \/ set_auto_read_enabled

Next ==
    \/ Foreground
    \/ _reader_thread_routine
    \/ remote_output
    \/ remote_stops

Spec == Init /\ [][Next]_vars

\* Threads are scheduled fairly: the reader thread is not starved.
FairSpec == Spec /\ WF_vars(_reader_thread_routine)

----------------------------------------------------------------------------
(* Properties *)

ReaderInReadLine == rpc = "read_line"

ForegroundInReadAll == fop = "read_junk" /\ fpc = "read_all"

\* run_file has sent the start-paste byte and not yet the end-paste byte.
InPasteSession == fop = "run_file" /\ fpc \in {"L35", "L37", "L38", "L39"}

RunFileCompleted == fop = "run_file" /\ fpc = "ret" /\ result = "ok"

LineIndices(log) == {i \in DOMAIN log : log[i].call = "send_line"}

FileOpenLine(fn) == "with open(\"" \o fn \o "\") as f:"

\* C1: a reader read_line and a foreground read_all (through read_junk) are
\* never in progress at the same time.  (The caller issues its operations
\* one at a time, so at most one foreground exchange is in flight.)
C1_ReadsNeverConcurrent == ~(ReaderInReadLine /\ ForegroundInReadAll)

\* C2: while run_file is inside its paste session (start-paste sent, end-paste
\* not yet sent) the background reader enters no read_line.
C2_NoReadLineInPasteSession ==
    [][InPasteSession => ~(rpc = "L57" /\ rpc' = "read_line")]_vars

\* C3: a run_file call that completes has sent exactly: the start-paste byte,
\* then the globals_init line (when present), the file-open line and the exec
\* line, each with the carriage-return ending, then the end-paste byte.
C3_RunFileSendsPasteSession ==
    RunFileCompleted =>
        LET n == Len(sent)
            body == SubSeq(sent, 2, n - 1)
            texts == (IF globals_init # "" THEN <<globals_init>> ELSE <<>>)
                     \o <<FileOpenLine(file_name), "    exec(f.read(), globals())">>
        IN  /\ n >= 2
            /\ sent[1].call = "send_character" /\ sent[1].char = 5
            /\ sent[n].call = "send_character" /\ sent[n].char = 4
            /\ Len(body) = Len(texts)
            /\ \A i \in DOMAIN body :
                  /\ body[i].call = "send_line"
                  /\ body[i].text = texts[i]
                  /\ body[i].ending = "\r"

C3_Witness ==
    /\ RunFileCompleted
    /\ file_name = "main.py"
    /\ globals_init = "x=1"
    /\ Len(sent) = 5

\* C4: run_file sends globals_init as a line exactly when it is non-empty,
\* right after the start-paste byte and before the file-open line: a completed
\* session has 3 lines when globals_init is non-empty and 2 when it is empty.
C4_GlobalsInitLine ==
    RunFileCompleted =>
        /\ Cardinality(LineIndices(sent)) = IF globals_init # "" THEN 3 ELSE 2
        /\ globals_init # "" =>
              /\ sent[1].call = "send_character"
              /\ sent[2].call = "send_line" /\ sent[2].text = globals_init
              /\ sent[3].text = FileOpenLine(file_name)
        /\ globals_init = "" =>
              \A i \in LineIndices(sent) : sent[i].text # globals_init

C4_Witness ==
    /\ RunFileCompleted
    /\ globals_init = ""
    /\ Cardinality(LineIndices(sent)) = 2

\* C5: on a connected Connection whose transport does not fail, remove_file
\* completes without error having made exactly one send_line, with the text
\* import os; os.remove("<file_name>") and a line ending, and no control byte.
C5_RemoveFileSendsOneLine ==
    (fop = "remove_file" /\ fpc = "ret" /\ connected /\ result # "TransportError") =>
        /\ result = "ok"
        /\ Len(sent) = 1
        /\ sent[1].call = "send_line"
        /\ sent[1].text = "import os; os.remove(\"" \o file_name \o "\")"
        /\ sent[1].ending # ""

\* C6: a public operation invoked while the Connection is not connected fails
\* with NotConnected and neither sends nor reads anything on the transport.
C6_NotConnectedFails ==
    (fop \in PublicOps /\ fpc = "ret" /\ ~connected) =>
        /\ result = "NotConnected"
        /\ sent = <<>>
        /\ ~fg_read

\* C7: once disconnect has cleared _reader_running after the reader thread
\* was started, the reader routine eventually terminates.
C7_ClearedFlagStopsReader ==
    (fop = "disconnect" /\ fpc = "join") ~> (rpc \in {"done", "crashed"})

\* C8: when read_line has raised inside the reader, the reader has stopped
\* and _reader_running is false.
C8_ReadFailureClearsRunning == (rpc = "crashed") => ~_reader_running

ReaderAlive == rpc \notin {"new", "done", "crashed"}

\* C9: if from some point on the reader keeps running with _auto_read_enabled
\* true and the remote produces no more output, then the inbound buffer
\* eventually becomes empty and stays empty.
C9_BufferDrains ==
    <>[](ReaderAlive /\ _auto_read_enabled /\ remote_idle) => <>[](inbuf = <<>>)

C9_Witness ==
    /\ remote_idle
    /\ _auto_read_enabled
    /\ rpc = "L60" /\ x # ""
    /\ inbuf = <<>>

\* C10: while run_file or remove_file is in progress, every write that has
\* reached the transport since it was called is one of its own.
C10_OnlyOwnWritesInExchange ==
    (fop \in {"run_file", "remove_file"} /\ fpc \notin {"idle", "ret"}) =>
        \A i \in DOMAIN sent : sent[i].by = "fg"

C10_Witness ==
    /\ fop = "run_file" /\ fpc = "L39"
    /\ Len(sent) = 4
    /\ rpc = "L60" /\ x # ""

ControlByte(op) ==
    CASE op = "send_start_paste" -> 5
      [] op = "send_end_paste"   -> 4
      [] op = "send_kill"        -> 3

\* C12: send_start_paste, send_end_paste and send_kill each make exactly one
\* send_character call, with the bytes 5, 4 and 3, and write nothing else.
C12_ControlBytes ==
    (fop \in {"send_start_paste", "send_end_paste", "send_kill"} /\ fpc = "ret") =>
        IF result = "ok"
        THEN /\ Len(sent) = 1
             /\ sent[1].call = "send_character"
             /\ sent[1].char = ControlByte(fop)
             /\ sent[1].text = "" /\ sent[1].ending = ""
        ELSE sent = <<>>

C12_Witness ==
    /\ fop = "send_kill" /\ fpc = "ret" /\ result = "ok"
    /\ Len(sent) = 1

\* C13: when the transport has raised during an operation, the Connection is
\* disconnected afterwards: is_connected() is false and the reader is stopped.
C13_TransportFailureDisconnects ==
    (fop \in PublicOps /\ fpc = "ret" /\ result = "TransportError") =>
        /\ ~connected
        /\ ~_reader_running

GuardHeldAt == {"L57", "read_line", "L60"}

\* C14: in an iteration whose read_line returns, the reader holds the guard
\* exactly from its acquire to its release: it has made one read_line when it
\* saw _auto_read_enabled true and none when it saw it false, never two, and
\* it does not hold the guard while it sleeps or between iterations.
C14_GuardPerReadAttempt ==
    /\ rpc # "crashed" => (_auto_reader_lock = "reader" <=> rpc \in GuardHeldAt)
    /\ reads <= 1
    /\ rpc \in {"L60", "L61"} => reads = IF auto_seen THEN 1 ELSE 0

C14_Witness ==
    /\ rpc = "L61"
    /\ auto_seen /\ reads = 1
    /\ _auto_reader_lock = "free"

\* Nothing was read in the reader's last iteration: no read_line was made, or
\* it returned the empty string.
NothingRead == reads = 0 \/ x = ""

\* C15: after each reader iteration the delay is the 0.1 s back-off exactly
\* when nothing was read, and zero exactly when a non-empty line was read.
C15_DelayAfterIteration ==
    (rpc \in {"L55", "L56", "done"} /\ delay # "none") =>
        /\ delay = "0.1" <=> NothingRead
        /\ delay = "0" <=> ~NothingRead

C15_Witness ==
    /\ rpc = "L55"
    /\ delay = "0"
    /\ reads = 1 /\ x # ""

\* What a complete run_file(fn, gi) sends, as (call, char, text) triples.
PasteSession(fn, gi) ==
    <<<<"send_character", 5, "">>>>
    \o (IF gi # "" THEN <<<<"send_line", 0, gi>>>> ELSE <<>>)
    \o <<<<"send_line", 0, FileOpenLine(fn)>>,
         <<"send_line", 0, "    exec(f.read(), globals())">>,
         <<"send_character", 4, "">>>>

RunFileFailed == fop = "run_file" /\ fpc = "ret" /\ result # "ok"

\* C16: when a send fails inside run_file the error reaches the caller and
\* nothing further is sent: what was sent is a proper prefix of the session
\* without the end-paste byte, and the failing step leaves _reader_running,
\* _auto_read_enabled and the guard as they were.
C16_FailedRunFileStops ==
    /\ [](RunFileFailed =>
            LET full == PasteSession(file_name, globals_init)
            IN  /\ Len(sent) < Len(full)
                /\ \A i \in DOMAIN sent :
                      <<sent[i].call, sent[i].char, sent[i].text>> = full[i])
    /\ [][(fop = "run_file" /\ fpc # "ret" /\ fpc' = "ret" /\ result' # "ok") =>
            (sent' = sent /\ conn_vars' = conn_vars)]_vars

C16_Witness ==
    /\ RunFileFailed
    /\ result = "TransportError"
    /\ Len(sent) = 2

\* C17: whenever the reader is sleeping or has stopped, for whatever reason,
\* _auto_reader_lock is free.
C17_GuardFreeWhenReaderIdle ==
    rpc \in {"L61", "done", "crashed"} => _auto_reader_lock = "free"

----------------------------------------------------------------------------
(* FlashDialog: the job threads (_flash_job) *)

\* Outcomes of subprocess.Popen: started, or an OSError; only
\* FileNotFoundError is caught (line 116).
PopenOutcomes == {"ok", "FileNotFoundError", "PermissionError"}

\* Exit codes of the flash script: success, failure.
ExitCodes == {0, 1}

\* b"\r\n\t "
Whitespace == {13, 10, 9, 32}

OutputSignal == [sig |-> "output", code |-> 0]

FinishedSignal(c) == [sig |-> "finished", code |-> c]

RECURSIVE BytesReadUpTo(_)
BytesReadUpTo(j) ==
    IF j = 0 THEN 0 ELSE Len(jobs[j].stream) + BytesReadUpTo(j - 1)

\* Bytes read from subprocesses so far, by all jobs.
BytesRead == BytesReadUpTo(MaxJobs)

\* line 126: not x or (x[0] == 8 and delete == 0) or (x[0] != 8 and x[0] in b"\r\n\t ")
FlushNeeded(b, delete) ==
    \/ b = <<>>
    \/ (b[1] = 8 /\ delete = 0)
    \/ (b[1] # 8 /\ b[1] \in Whitespace)

\* lines 138-141: a backspace is counted, any other byte is buffered.
AfterByte(job, b) ==
    IF b[1] = 8
    THEN [job EXCEPT !.delete = job.delete + 1]
    ELSE [job EXCEPT !.buf = Append(job.buf, b[1])]

\* lines 128-130: self._flash_output[:-delete] when delete > 0, then extend(buf).
Flushed(out, job) ==
    (IF job.delete > 0
     THEN SubSeq(out, 1, IF Len(out) > job.delete THEN Len(out) - job.delete ELSE 0)
     ELSE out) \o job.buf

JobFrame ==
    UNCHANGED <<connection_vars, _flashing, flashButton, port_list, python_path,
                firmware_file, gpc, code, njobs, visible, event>>

\* lines 109-118: the subprocess is launched.
flash_job_109(j) ==
    /\ jobs[j].jpc = "L109"
    /\ \E o \in PopenOutcomes :
          /\ jobs' = [jobs EXCEPT
                ![j].jpc = CASE o = "ok" -> "L124"
                             [] o = "FileNotFoundError" -> "done"
                             [] OTHER -> "crashed",
                ![j].emitted = IF o = "FileNotFoundError" THEN @ + 1 ELSE @]
          /\ signals' = IF o = "FileNotFoundError"
                        THEN Append(signals, FinishedSignal(-1))
                        ELSE signals
    /\ UNCHANGED <<_flash_output, _flash_output_mutex>>
    /\ JobFrame

\* lines 124-126 and 135-141: one byte (or the end of the stream) is read;
\* unless a flush is due, it is counted or buffered.
flash_job_124(j) ==
    /\ jobs[j].jpc = "L124"
    /\ \E b \in {<<>>} \cup {<<c>> : c \in Bytes} :
          /\ b # <<>> => BytesRead < MaxStream
          /\ LET read == [jobs[j] EXCEPT !.x = b, !.stream = @ \o b]
             IN  jobs' = [jobs EXCEPT ![j] =
                    IF FlushNeeded(b, read.delete)
                    THEN [read EXCEPT !.jpc = "L127"]
                    ELSE AfterByte(read, b)]
    /\ UNCHANGED <<_flash_output, _flash_output_mutex, signals>>
    /\ JobFrame

\* line 127: with self._flash_output_mutex (acquire)
flash_job_127(j) ==
    /\ jobs[j].jpc = "L127"
    /\ _flash_output_mutex = 0
    /\ _flash_output_mutex' = j
    /\ jobs' = [jobs EXCEPT ![j].jpc = "L128"]
    /\ UNCHANGED <<_flash_output, signals>>
    /\ JobFrame

\* lines 128-141: the flush under the mutex, the output signal, and the byte
\* that caused the flush; the loop ends at the end of the stream.
flash_job_128(j) ==
    /\ jobs[j].jpc = "L128"
    /\ _flash_output' = Flushed(_flash_output, jobs[j])
    /\ _flash_output_mutex' = 0
    /\ signals' = Append(signals, OutputSignal)
    /\ LET reset == [jobs[j] EXCEPT !.buf = <<>>, !.delete = 0]
       IN  jobs' = [jobs EXCEPT ![j] =
              IF reset.x = <<>>
              THEN [reset EXCEPT !.jpc = "L143"]
              ELSE [AfterByte(reset, reset.x) EXCEPT !.jpc = "L124"]]
    /\ JobFrame

\* lines 143-147: the subprocess is waited for and finished is emitted.
flash_job_143(j) ==
    /\ jobs[j].jpc = "L143"
    /\ \E c \in ExitCodes :
          signals' = Append(signals, FinishedSignal(c))
    /\ jobs' = [jobs EXCEPT ![j].jpc = "done", ![j].emitted = @ + 1]
    /\ UNCHANGED <<_flash_output, _flash_output_mutex>>
    /\ JobFrame

_flash_job ==
    \E j \in 1..MaxJobs :
        \/ flash_job_109(j)
        \/ flash_job_124(j)
        \/ flash_job_127(j)
        \/ flash_job_128(j)
        \/ flash_job_143(j)

----------------------------------------------------------------------------
(* FlashDialog: the GUI thread *)

\* b"Rebooting from flash mode...\n"
RebootingMessage ==
    <<82, 101, 98, 111, 111, 116, 105, 110, 103, 32, 102, 114, 111, 109, 32,
      102, 108, 97, 115, 104, 32, 109, 111, 100, 101, 46, 46, 46, 10>>

GuiFrame ==
    UNCHANGED <<connection_vars, _flash_output_mutex>>

\* A slot that is neither closeEvent nor keyPressEvent.
SlotFrame ==
    /\ UNCHANGED <<visible, event>>
    /\ GuiFrame

\* _refresh_ports: the ports are scanned; the flash button is enabled exactly
\* when one was found.
_refresh_ports ==
    /\ gpc = "idle"
    /\ visible
    /\ \E found \in BOOLEAN :
          /\ port_list' = found
          /\ flashButton' = found
    /\ UNCHANGED <<_flashing, _flash_output, python_path, firmware_file, gpc,
                   code, signals, jobs, njobs>>
    /\ SlotFrame

\* _pick_python with a file chosen.
_pick_python ==
    /\ gpc = "idle"
    /\ visible
    /\ python_path' = "python"
    /\ UNCHANGED <<_flashing, flashButton, _flash_output, port_list,
                   firmware_file, gpc, code, signals, jobs, njobs>>
    /\ SlotFrame

\* _pick_firmware with a file chosen.
_pick_firmware ==
    /\ gpc = "idle"
    /\ visible
    /\ firmware_file' = "firmware.bin"
    /\ UNCHANGED <<_flashing, flashButton, _flash_output, port_list,
                   python_path, gpc, code, signals, jobs, njobs>>
    /\ SlotFrame

\* flashButton.clicked: an enabled button is clicked and _flash is entered.
flash_clicked ==
    /\ gpc = "idle"
    /\ visible
    /\ flashButton
    /\ njobs < MaxJobs
    /\ gpc' = "L150"
    /\ UNCHANGED <<_flashing, flashButton, _flash_output, port_list, python_path,
                   firmware_file, code, signals, jobs, njobs>>
    /\ SlotFrame

\* _flash, lines 150-166: the output is reset; without a python path or a
\* firmware file it returns; port_list[...] raises on an empty list; else the
\* job thread is started, the button disabled and _flashing set.
_flash ==
    /\ gpc = "L150"
    /\ _flash_output' = <<>>
    /\ gpc' = "idle"
    /\ IF python_path = "" \/ firmware_file = "" \/ ~port_list
       THEN UNCHANGED <<_flashing, flashButton, jobs, njobs>>
       ELSE /\ njobs' = njobs + 1
            /\ jobs' = [jobs EXCEPT ![njobs + 1].jpc = "L109"]
            /\ flashButton' = FALSE
            /\ _flashing' = TRUE
    /\ UNCHANGED <<port_list, python_path, firmware_file, code, signals>>
    /\ SlotFrame

\* A queued signal is delivered: its slot is entered.
deliver_signal ==
    /\ gpc = "idle"
    /\ signals # <<>>
    /\ signals' = Tail(signals)
    /\ gpc' = IF Head(signals).sig = "output" THEN "L100" ELSE "L170"
    /\ code' = IF Head(signals).sig = "output" THEN code ELSE Head(signals).code
    /\ UNCHANGED <<_flashing, flashButton, _flash_output, port_list, python_path,
                   firmware_file, jobs, njobs>>
    /\ SlotFrame

\* _update_output, lines 100-101: the output is shown under the mutex.
_update_output ==
    /\ gpc = "L100"
    /\ _flash_output_mutex = 0
    /\ gpc' = "idle"
    /\ UNCHANGED <<_flashing, flashButton, _flash_output, port_list, python_path,
                   firmware_file, code, signals, jobs, njobs>>
    /\ SlotFrame

\* _flash_finished, lines 169-190: on code 0 the output is extended and shown
\* (_update_output takes the mutex); the button is enabled, _flashing cleared.
_flash_finished ==
    /\ gpc = "L170"
    /\ code = 0 => _flash_output_mutex = 0
    /\ _flash_output' = IF code = 0 THEN _flash_output \o RebootingMessage
                        ELSE _flash_output
    /\ flashButton' = TRUE
    /\ _flashing' = FALSE
    /\ gpc' = "idle"
    /\ UNCHANGED <<port_list, python_path, firmware_file, code, signals, jobs, njobs>>
    /\ SlotFrame

\* closeEvent, lines 44-46: a close event arrives accepted; it is ignored
\* while _flashing.
closeEvent ==
    /\ gpc = "idle"
    /\ visible
    /\ event' = [kind |-> "close", key |-> "none",
                 accepted |-> IF _flashing THEN FALSE ELSE TRUE]
    /\ gpc' = "ret"
    /\ UNCHANGED <<_flashing, flashButton, _flash_output, port_list, python_path,
                   firmware_file, code, signals, jobs, njobs, visible>>
    /\ GuiFrame

\* keyPressEvent, lines 48-50: a key event arrives accepted; Escape is
\* ignored while _flashing.  QDialog.keyPressEvent is not called.
keyPressEvent ==
    /\ gpc = "idle"
    /\ visible
    /\ \E key \in Keys :
          event' = [kind |-> "key", key |-> key,
                    accepted |-> IF key = "Key_Escape" /\ _flashing
                                 THEN FALSE ELSE TRUE]
    /\ gpc' = "ret"
    /\ UNCHANGED <<_flashing, flashButton, _flash_output, port_list, python_path,
                   firmware_file, code, signals, jobs, njobs, visible>>
    /\ GuiFrame

\* The handler has returned: an accepted close event hides the dialog; a key
\* event closes nothing, QDialog's Escape handling being overridden.
event_handled ==
    /\ gpc = "ret"
    /\ visible' = IF event.kind = "close" /\ event.accepted THEN FALSE ELSE visible
    /\ event' = NoEvent
    /\ gpc' = "idle"
    /\ UNCHANGED <<_flashing, flashButton, _flash_output, port_list, python_path,
                   firmware_file, code, signals, jobs, njobs>>
    /\ GuiFrame

Gui ==
    \/ _refresh_ports
    \/ _pick_python
    \/ _pick_firmware
    \/ flash_clicked
    \/ _flash
    \/ deliver_signal
    \/ _update_output
    \/ _flash_finished
    \/ closeEvent
    \/ keyPressEvent
    \/ event_handled

FlashNext ==
    \/ Gui
    \/ _flash_job

FlashSpec == Init /\ [][FlashNext]_vars

----------------------------------------------------------------------------
(* Properties of FlashDialog *)

JobEnded(j) == jobs[j].jpc \in {"done", "crashed"}

\* C18: a flash job whose thread has ended has emitted the finished signal
\* exactly once, whatever the outcome of launching and reading the subprocess.
C18_EndedJobEmittedFinished ==
    \A j \in 1..MaxJobs : JobEnded(j) => jobs[j].emitted = 1

\* A stream as a console renders it: a backspace deletes the byte before it
\* (if any), every other byte is appended.
RECURSIVE Console(_)
Console(stream) ==
    IF stream = <<>> THEN <<>>
    ELSE LET before == Console(SubSeq(stream, 1, Len(stream) - 1))
             b == stream[Len(stream)]
         IN  IF b = 8
             THEN SubSeq(before, 1, IF before = <<>> THEN 0 ELSE Len(before) - 1)
             ELSE Append(before, b)

\* C19: when the stream of the (only) job ends, _flash_output is the stream
\* as a console renders it.
C19_OutputIsConsoleRendering ==
    (njobs = 1 /\ jobs[1].jpc = "L143") => _flash_output = Console(jobs[1].stream)

\* A job thread that will not touch _flash_output (again).
CannotTouch(j) == jobs[j].jpc \in {"new", "L143", "done", "crashed"}

\* C20: the GUI thread is at an access of _flash_output made without the mutex
\* (line 150 of _flash, lines 170-173 of _flash_finished) only when no job
\* thread can still touch _flash_output.
C20_UnlockedAccessIsExclusive ==
    gpc \in {"L150", "L170"} => \A j \in 1..MaxJobs : CannotTouch(j)

\* A job thread that has been started and has not ended.
Running(j) == jobs[j].jpc \notin {"new", "done", "crashed"}

RECURSIVE EmittedUpTo(_)
EmittedUpTo(j) ==
    IF j = 0 THEN 0 ELSE jobs[j].emitted + EmittedUpTo(j - 1)

RECURSIVE FinishedIn(_)
FinishedIn(q) ==
    IF q = <<>> THEN 0
    ELSE (IF Head(q).sig = "finished" THEN 1 ELSE 0) + FinishedIn(Tail(q))

\* Calls of _flash_finished that have returned: the finished signals emitted,
\* less those still queued and the one being handled.
FinishedCalls ==
    EmittedUpTo(MaxJobs) - FinishedIn(signals) - (IF gpc = "L170" THEN 1 ELSE 0)

\* Jobs started by _flash for which _flash_finished has not yet run.
Unfinished == njobs - FinishedCalls

\* _flashing is true exactly while a started job has not yet been finished.
FlashingIffUnfinished == _flashing <=> Unfinished > 0

\* The flash button is disabled whenever _flashing is true.
ButtonDisabledWhileFlashing == _flashing => ~flashButton

\* At most one job is running at a time.
AtMostOneJob == Cardinality({j \in 1..MaxJobs : Running(j)}) <= 1

\* _flash returns early at line 154 or line 158.
Rejected == python_path = "" \/ firmware_file = ""

\* A rejected _flash starts no job and leaves _flashing false.
RejectedFlashStartsNothing ==
    (gpc = "L150" /\ gpc' = "idle" /\ Rejected)
        => (njobs' = njobs /\ jobs' = jobs /\ ~_flashing')

\* A close event, or an Escape key event, handled while _flashing is ignored.
CloseAndEscapeIgnored ==
    (gpc = "ret" /\ _flashing /\ (event.kind = "close" \/ event.key = "Key_Escape"))
        => ~event.accepted

\* C21: after any sequence of _flash and _flash_finished events, _flashing is
\* true exactly while a started job has not yet been finished, the flash
\* button is disabled whenever _flashing is true, at most one job is running
\* at a time, a _flash rejected for an empty python path or firmware path
\* starts no job and leaves _flashing false, and close and Escape events are
\* ignored whenever _flashing is true.
C21_FlashingInvariants ==
    /\ [](/\ FlashingIffUnfinished
          /\ ButtonDisabledWhileFlashing
          /\ AtMostOneJob
          /\ CloseAndEscapeIgnored)
    /\ [][RejectedFlashStartsNothing]_vars

====
